---- MODULE Spec2Model ----
(***************************************************************************)
(* Model of mvpa/base/hdf5.py: the object graph codec obj2hdf / hdf2obj    *)
(* and the file wrappers h5save / h5load; of permute_attr and              *)
(* coarsen_chunks of mvpa/datasets/miscfx.py; and of ProjectionMapper of   *)
(* mvpa/mappers/projection.py.                                             *)
(*                                                                         *)
(* Python objects are records tagged by k.  An HDF5 file is a flat map     *)
(* from paths (sequences of child names, <<>> being the root group) to     *)
(* nodes: groups carrying an attribute map, and datasets carrying shape,   *)
(* element type and row-major data.                                        *)
(***************************************************************************)
EXTENDS Integers, Sequences, FiniteSets, TLC

VARIABLES obj, nm, store, exists, nopen, out, pc, tgt, bad, nsaves, saves

\* permute_attr: the attribute's values and the chunk ids of the dataset, the
\* arguments chunks_attr and assure_permute of the call being run, the calls
\* waiting for the call they made, and how the outermost call was left
VARIABLES attr_value, chunks_value, chunks_attr, assure_permute, frames, ppc,
          perr, attr_before, assured

\* coarsen_chunks: the chunk ids given, the number of chunks asked for, and
\* what the call returned or raised
VARIABLES source, nchunks, chunks_new, cpc

\* obj2hdf run call by call on a graph of containers: the graph, the calls
\* that have not returned, the nodes created, their number, and how the
\* outermost call was left
VARIABLES heap, stack, written, ncreated, gpc

\* a ProjectionMapper: its attributes, and what the last operation returned
VARIABLES _proj, _recon, _offset_in, _demean, mapped

hdfvars == <<obj, nm, store, exists, nopen, out, pc, tgt, bad, nsaves, saves>>
permvars == <<attr_value, chunks_value, chunks_attr, assure_permute, frames, ppc,
              perr, attr_before, assured>>
coarsevars == <<source, nchunks, chunks_new, cpc>>

graphvars == <<heap, stack, written, ncreated, gpc>>
mappervars == <<_proj, _recon, _offset_in, _demean, mapped>>

vars == <<hdfvars, permvars, coarsevars, graphvars, mappervars>>

(***************************************************************************)
(* Bounds of the model.                                                    *)
(***************************************************************************)
MaxInt == 1
MaxLen == 2
MaxDim == 2
MaxDepth == 2
MaxSaves == 2
MaxSamples == 3
MaxLabel == 1
MaxChunkId == 2
MaxWant == 3
MaxNodes == 2
MaxKids == 2
MaxProj == 2

(***************************************************************************)
(* Python values.                                                          *)
(***************************************************************************)
NoName == "<None>"
NoVal == [k |-> "<novalue>"]
PyNone == [k |-> "NoneType"]
Scalar(dtype, v) == [k |-> "scalar", dtype |-> dtype, v |-> v]
NdArray(dtype, shape, data) ==
    [k |-> "ndarray", dtype |-> dtype, shape |-> shape, data |-> data]
PyList(items) == [k |-> "list", items |-> items]
PyTuple(items) == [k |-> "tuple", items |-> items]
PyDict(map) == [k |-> "dict", map |-> map]
PySet(elems) == [k |-> "set", elems |-> elems]
\* a function object: neither storable as a leaf nor reducible nor a container
PyFunction == [k |-> "function"]
Instance(module, cls, state, content) ==
    [k |-> "instance", module |-> module, cls |-> cls,
     state |-> state, content |-> content]

Builtin == "__builtin__"
UserModule == "mod"

\* The classes importable at run time: each class's builtin base type and
\* whether it defines its own __reduce__.
ClassBase(module, cls) ==
    CASE module = UserModule /\ cls \in {"MyDict", "MyDictU"} -> "dict"
      [] module = UserModule /\ cls = "MyList" -> "list"
      [] module = UserModule /\ cls = "Old" -> "classic"
      [] OTHER -> "object"

KnownClasses ==
    {"Plain", "MyDict", "MyDictU", "MyList", "Custom", "CustomS", "Wide", "Old"}

HasCustomReduce(module, cls) ==
    module = UserModule /\ cls \in {"Custom", "CustomS", "Wide"}

\* whether the class defines an update method of its own
OverridesUpdate(module, cls) == module = UserModule /\ cls = "MyDictU"

\* isinstance(obj, list), isinstance(obj, tuple), isinstance(obj, dict)
IsList(o) ==
    \/ o.k = "list"
    \/ o.k = "instance" /\ ClassBase(o.module, o.cls) = "list"
IsTuple(o) ==
    \/ o.k = "tuple"
    \/ o.k = "instance" /\ ClassBase(o.module, o.cls) = "tuple"
IsDict(o) ==
    \/ o.k = "dict"
    \/ o.k = "instance" /\ ClassBase(o.module, o.cls) = "dict"

\* obj.__class__.__name__ and obj.__class__.__module__
ClassName(o) == IF o.k = "instance" THEN o.cls ELSE o.k
ClassModule(o) == IF o.k = "instance" THEN o.module ELSE Builtin

\* The elements of a list-like or tuple-like object, the mapping of a dict-like one.
SeqItems(o) == IF o.k = "instance" THEN o.content ELSE o.items
DictMap(o) == IF o.k = "instance" THEN o.content ELSE o.map

Prod(shape) ==
    LET RECURSIVE P(_)
        P(i) == IF i > Len(shape) THEN 1 ELSE shape[i] * P(i + 1)
    IN P(1)

\* str(i) for the child names of sequence-style groups
IdxNames == <<"0", "1", "2", "3", "4", "5", "6", "7", "8", "9", "10", "11", "12">>
StrOf(i) == IdxNames[i + 1]

\* A fixed enumeration order of a finite set of strings (dict iteration order).
RECURSIVE SetToSeq(_)
SetToSeq(S) ==
    IF S = {} THEN <<>>
    ELSE LET x == CHOOSE y \in S : TRUE IN <<x>> \o SetToSeq(S \ {x})

(***************************************************************************)
(* The h5py store: groups, datasets, attributes.                           *)
(***************************************************************************)
Root == <<>>
Group(attrs) == [k |-> "group", attrs |-> attrs]
Dataset(shape, dtype, data) ==
    [k |-> "dataset", shape |-> shape, dtype |-> dtype, data |-> data]
EmptyStore == (Root :> Group(<<>>))

Child(hdf, name) == Append(hdf, name)
\* name in hdf
HasChild(nodes, hdf, name) == Child(hdf, name) \in DOMAIN nodes
\* the child names of a group: iteration over hdf, len(hdf)
ChildNames(nodes, hdf) ==
    {p[Len(p)] : p \in {q \in DOMAIN nodes :
        Len(q) = Len(hdf) + 1 /\ SubSeq(q, 1, Len(hdf)) = hdf}}
\* 'key' in hdf.attrs
HasAttr(nodes, hdf, key) == key \in DOMAIN nodes[hdf].attrs

\* The state threaded through an encode: the nodes written so far, the
\* exception raised ("" while none was) and whether the file is read-only.
Start(nodes, ro) == [nodes |-> nodes, err |-> "", ro |-> ro]
Raise(r, err) == IF r.err # "" THEN r ELSE [r EXCEPT !.err = err]

\* h5py.Group.create_group(name): the name must be new
CreateGroup(r, hdf, name) ==
    IF r.err # "" THEN r
    ELSE IF r.ro THEN Raise(r, "H5Error")
    ELSE IF HasChild(r.nodes, hdf, name) THEN Raise(r, "ValueError")
    ELSE [r EXCEPT !.nodes = r.nodes @@ (Child(hdf, name) :> Group(<<>>))]

\* h5py.AttributeManager.create(key, value): overwrites an existing attribute
AttrsCreate(r, grp, key, value) ==
    IF r.err # "" THEN r
    ELSE IF r.ro THEN Raise(r, "H5Error")
    ELSE [r EXCEPT !.nodes[grp].attrs = (key :> value) @@ r.nodes[grp].attrs]

\* The dataset h5py builds from a scalar (zero-dimensional) or an array.
AsDataset(o) ==
    IF o.k = "scalar" THEN Dataset(<<>>, o.dtype, <<o.v>>)
    ELSE Dataset(o.shape, o.dtype, o.data)

\* h5py.Group.create_dataset(name, None, None, obj).  With name None h5py
\* either refuses the name or builds an anonymous dataset that no group
\* links to: anon says which.
CreateDataset(r, hdf, name, o, anon) ==
    IF r.err # "" THEN r
    ELSE IF r.ro THEN Raise(r, "H5Error")
    ELSE IF name = NoName
         THEN IF anon THEN r ELSE Raise(r, "TypeError")
    ELSE IF HasChild(r.nodes, hdf, name) THEN Raise(r, "ValueError")
    ELSE [r EXCEPT !.nodes = r.nodes @@ (Child(hdf, name) :> AsDataset(o))]

(***************************************************************************)
(* Encoding: obj2hdf.                                                      *)
(***************************************************************************)
\* N.isscalar(obj) or (isinstance(obj, N.ndarray) and not obj.dtype == N.object)
IsLeaf(o) == o.k = "scalar" \/ (o.k = "ndarray" /\ o.dtype # "object")
IsObjArray(o) == o.k = "ndarray" /\ o.dtype = "object"

\* list(obj) of an array with at least one dimension: its elements when it is
\* one-dimensional, else its sub-arrays along the first axis.
ListOfArray(o) ==
    LET rest == Tail(o.shape)
        sz == Prod(rest)
    IN IF Len(o.shape) = 1 THEN PyList(o.data)
       ELSE PyList([i \in 1..o.shape[1] |->
                NdArray(o.dtype, rest, SubSeq(o.data, (i - 1) * sz + 1, i * sz))])

\* obj.__reduce__(): raises is the exception raised ("" for none); else the
\* factory's name and module, its arguments, the number n of parts returned
\* and the state part.
Pieces(fname, fmodule, args, n, state) ==
    [raises |-> "", fname |-> fname, fmodule |-> fmodule, args |-> args,
     n |-> n, state |-> state]
NoPieces(err) ==
    [raises |-> err, fname |-> "", fmodule |-> "", args |-> <<>>, n |-> 0,
     state |-> <<>>]
Reduce(o) ==
    CASE o.k \in {"list", "tuple", "dict", "NoneType", "function"} ->
            NoPieces("TypeError")
      [] o.k = "set" -> Pieces("set", Builtin, <<PyList(o.elems)>>, 3, <<>>)
      [] o.k = "instance" /\ ClassBase(o.module, o.cls) = "classic" ->
            NoPieces("AttributeError")
      [] o.k = "instance" /\ o.module = UserModule /\ o.cls = "Custom" ->
            Pieces("Custom", UserModule, <<o.state["a"], o.state["b"]>>, 2, <<>>)
      [] o.k = "instance" /\ o.module = UserModule /\ o.cls = "CustomS" ->
            Pieces("CustomS", UserModule, <<o.state["a"]>>, 3,
                   ("b" :> o.state["b"]))
      [] o.k = "instance" /\ o.module = UserModule /\ o.cls = "Wide" ->
            Pieces("Wide", UserModule, o.state["args"].items, 2, <<>>)
      [] OTHER ->
            Pieces("_reconstructor", "copy_reg", <<>>,
                   IF o.state = <<>> THEN 2 ELSE 3, o.state)

RECURSIVE Obj2Hdf(_, _, _, _, _)
RECURSIVE StoreSeq(_, _, _, _, _)
RECURSIVE StoreMap(_, _, _, _, _)

\* for i, item in enumerate(seq): obj2hdf(grp, item, str(i))
StoreSeq(r, grp, seq, i, anon) ==
    IF r.err # "" \/ i > Len(seq) THEN r
    ELSE StoreSeq(Obj2Hdf(r, grp, seq[i], StrOf(i - 1), anon), grp, seq, i + 1, anon)

\* for key in map: obj2hdf(grp, map[key], key)
StoreMap(r, grp, map, keys, anon) ==
    IF r.err # "" \/ keys = <<>> THEN r
    ELSE StoreMap(Obj2Hdf(r, grp, map[Head(keys)], Head(keys), anon),
                  grp, map, Tail(keys), anon)

ObjArrayFlag == "True"

\* obj = list(obj), which a zero-dimensional array refuses, and the flag
MarkListsToo(r, grp, o) ==
    IF IsObjArray(o) /\ Len(o.shape) = 0 THEN Raise(r, "TypeError")
    ELSE IF IsObjArray(o) \/ IsList(o) THEN AttrsCreate(r, grp, "is_objarray", ObjArrayFlag)
    ELSE r
MarkObjArray(r, grp, o) ==
    IF ~IsObjArray(o) THEN r
    ELSE IF Len(o.shape) = 0 THEN Raise(r, "TypeError")
    ELSE AttrsCreate(r, grp, "is_objarray", ObjArrayFlag)

\* The object the caller holds once obj2hdf is left.  obj = list(obj) binds the
\* local name to a new list; the code reads obj, its items and its state and
\* assigns into none of them.
ConvertedInPlace(o) == IF IsObjArray(o) /\ Len(o.shape) > 0 THEN ListOfArray(o) ELSE o
CallerView(o) == o

\* if not pieces is None and len(pieces) > 2: the state is stored, whether or
\* not items were
StateUnlessItems(o, pieces) ==
    pieces.raises = "" /\ pieces.n > 2 /\ ~(IsList(o) \/ IsTuple(o) \/ IsDict(o))
WritesState(o, pieces) == pieces.raises = "" /\ pieces.n > 2

\* the descriptor of an object group: the name under 'class' or 'recon', and
\* the module
DescribeNameOnly(r, grp, key, name, module) == AttrsCreate(r, grp, key, name)
Describe(r, grp, key, name, module) ==
    AttrsCreate(AttrsCreate(r, grp, key, name), grp, "module", module)

Obj2Hdf(r, hdf, o, name, anon) ==
    IF r.err # "" THEN r
    ELSE IF IsLeaf(o) THEN CreateDataset(r, hdf, name, o, anon)
    ELSE
      LET r1 == IF name # NoName THEN CreateGroup(r, hdf, name) ELSE r
          grp == IF name # NoName THEN Child(hdf, name) ELSE hdf
          r2 == MarkObjArray(r1, grp, o)
          o2 == IF IsObjArray(o) /\ Len(o.shape) > 0 THEN ListOfArray(o) ELSE o
          pieces == Reduce(o2)
          r3 == IF pieces.raises \notin {"", "TypeError"}
                THEN Raise(r2, pieces.raises) ELSE r2
      IN IF r2.err # "" THEN r2
         ELSE IF pieces.raises = "TypeError" \/ pieces.fname = "_reconstructor"
         THEN
           LET r4 == Describe(r3, grp, "class", ClassName(o2), ClassModule(o2))
               r5 == IF IsList(o2) \/ IsTuple(o2)
                     THEN StoreSeq(CreateGroup(r4, grp, "items"),
                                   Child(grp, "items"), SeqItems(o2), 1, anon)
                     ELSE IF IsDict(o2)
                     THEN StoreMap(CreateGroup(r4, grp, "items"),
                                   Child(grp, "items"), DictMap(o2),
                                   SetToSeq(DOMAIN DictMap(o2)), anon)
                     ELSE r4
           IN IF WritesState(o2, pieces)
              THEN StoreMap(CreateGroup(r5, grp, "state"), Child(grp, "state"),
                            pieces.state, SetToSeq(DOMAIN pieces.state), anon)
              ELSE r5
         ELSE
           LET r4 == Describe(r3, grp, "recon", pieces.fname, pieces.fmodule)
           IN StoreSeq(CreateGroup(r4, grp, "rcargs"), Child(grp, "rcargs"),
                       pieces.args, 1, anon)

(***************************************************************************)
(* Decoding: hdf2obj.                                                      *)
(***************************************************************************)
\* What a decode yields: the exception raised ("" for none), the value
\* returned, the group path the error message names (NoPath when it names
\* none) and the log of imports, allocations and calls made.
NoPath == <<"<no path>">>
Ok(val, log) == [err |-> "", val |-> val, at |-> NoPath, log |-> log]
Fail(err, at, log) == [err |-> err, val |-> NoVal, at |-> at, log |-> log]

Event(ev, module, name, args) ==
    [ev |-> ev, module |-> module, name |-> name, args |-> args]

\* __import__(mod, fromlist=[name]) and mod.__dict__[name]
Importable(module) == module = UserModule
Defined(module, name) == module = UserModule /\ name \in KnownClasses

\* recon(*recon_args) for the callables of the user module: the classes, whose
\* __init__ takes the attributes they reduce to.
Call(module, name, args) ==
    CASE name = "Custom" /\ Len(args) = 2 ->
            Ok(Instance(module, name, ("a" :> args[1]) @@ ("b" :> args[2]), <<>>), <<>>)
      [] name = "CustomS" /\ Len(args) = 1 ->
            Ok(Instance(module, name, ("a" :> args[1]) @@ ("b" :> PyNone), <<>>), <<>>)
      [] name = "Wide" ->
            Ok(Instance(module, name, ("args" :> PyTuple(args)), <<>>), <<>>)
      [] name \notin {"Custom", "CustomS", "Wide"} /\ Len(args) = 0 ->
            Ok(Instance(module, name, <<>>, <<>>), <<>>)
      [] OTHER -> Fail("TypeError", NoPath, <<>>)

\* dict.__new__(cls) for a dict subclass, else object.__new__(cls), which
\* refuses the subclasses of other builtin containers and old-style classes.
NewCallingInit(module, cls) ==
    Ok(Instance(module, cls, <<>>, <<>>),
       <<Event("new", module, cls, <<>>), Event("call", module, cls, <<>>)>>)
New(module, cls) ==
    IF ClassBase(module, cls) \in {"dict", "object"}
    THEN Ok(Instance(module, cls, <<>>, <<>>), <<Event("new", module, cls, <<>>)>>)
    ELSE Fail("TypeError", NoPath, <<>>)

\* mvpa.base.types.asobjarray: a one-dimensional object array of the elements
AsObjArray(l) == NdArray("object", <<Len(l.items)>>, l.items)

RECURSIVE Hdf2Obj(_, _)
RECURSIVE ListItems(_, _, _, _)
RECURSIVE ListItemsLexicographic(_, _, _, _)
RECURSIVE DictItems(_, _, _, _)

\* the children taken in the order of their names as strings
LexNames == <<"0", "1", "10", "11", "12", "2", "3", "4", "5", "6", "7", "8", "9">>
ListItemsLexicographic(nodes, hdf, i, acc) ==
    LET order == SelectSeq(LexNames, LAMBDA n : HasChild(nodes, hdf, n))
    IN IF i >= Cardinality(ChildNames(nodes, hdf)) THEN acc
       ELSE IF i >= Len(order) THEN Fail("KeyError", NoPath, acc.log)
       ELSE LET d == Hdf2Obj(nodes, Child(hdf, order[i + 1]))
            IN IF d.err # "" THEN Fail(d.err, d.at, acc.log \o d.log)
               ELSE ListItemsLexicographic(nodes, hdf, i + 1,
                        Ok(Append(acc.val, d.val), acc.log \o d.log))

\* hdf2obj(hdf[str(i)]) for i in xrange(len(hdf)), acc the elements decoded so far
ListItems(nodes, hdf, i, acc) ==
    IF i >= Cardinality(ChildNames(nodes, hdf)) THEN acc
    ELSE IF ~HasChild(nodes, hdf, StrOf(i))
         THEN Fail("KeyError", NoPath, acc.log)
    ELSE LET d == Hdf2Obj(nodes, Child(hdf, StrOf(i)))
         IN IF d.err # "" THEN Fail(d.err, d.at, acc.log \o d.log)
            ELSE ListItems(nodes, hdf, i + 1,
                           Ok(Append(acc.val, d.val), acc.log \o d.log))

\* (item, hdf2obj(hdf[item])) for item in hdf, acc the pairs decoded so far
DictItems(nodes, hdf, keys, acc) ==
    IF keys = <<>> THEN acc
    ELSE LET d == Hdf2Obj(nodes, Child(hdf, Head(keys)))
         IN IF d.err # "" THEN Fail(d.err, d.at, acc.log \o d.log)
            ELSE DictItems(nodes, hdf, Tail(keys),
                           Ok((Head(keys) :> d.val) @@ acc.val, acc.log \o d.log))

_hdf_listitems_to_obj(nodes, hdf) ==
    LET d == ListItems(nodes, hdf, 0, Ok(<<>>, <<>>))
    IN IF d.err # "" THEN d ELSE Ok(PyList(d.val), d.log)

TupleItemsAsList(nodes, hdf) == _hdf_listitems_to_obj(nodes, hdf)
_hdf_tupleitems_to_obj(nodes, hdf) ==
    LET l == _hdf_listitems_to_obj(nodes, hdf)
    IN IF l.err # "" THEN l ELSE Ok(PyTuple(l.val.items), l.log)

\* the names the codec itself gives to attributes and structural children
Reserved == {"items", "state", "rcargs", "class", "module", "recon", "is_objarray"}

DictItemsSkipReserved(nodes, hdf) ==
    LET d == DictItems(nodes, hdf, SetToSeq(ChildNames(nodes, hdf) \ Reserved),
                       Ok(<<>>, <<>>))
    IN IF d.err # "" THEN d ELSE Ok(PyDict(d.val), d.log)
_hdf_dictitems_to_obj(nodes, hdf) ==
    LET d == DictItems(nodes, hdf, SetToSeq(ChildNames(nodes, hdf)), Ok(<<>>, <<>>))
    IN IF d.err # "" THEN d ELSE Ok(PyDict(d.val), d.log)

\* hdf['items'], a KeyError when the group has no such child
ItemsOf(nodes, hdf, decoded) ==
    IF ~HasChild(nodes, hdf, "items") THEN Fail("KeyError", NoPath, <<>>)
    ELSE decoded

\* the arguments of the reconstructor: the decoded 'rcargs', () without them
ReconArgsDropped(nodes, hdf) == Ok(PyTuple(<<>>), <<>>)
ReconArgs(nodes, hdf) ==
    IF HasChild(nodes, hdf, "rcargs")
    THEN _hdf_tupleitems_to_obj(nodes, Child(hdf, "rcargs"))
    ELSE Ok(PyTuple(<<>>), <<>>)

\* the 'recon' branch
ReconObj(nodes, hdf) ==
    LET attrs == nodes[hdf].attrs
        recon == attrs["recon"]
        mod == attrs["module"]
        imp == <<Event("import", mod, recon, <<>>)>>
        a == ReconArgs(nodes, hdf)
        c == Call(mod, recon, a.val.items)
        call == <<Event("call", mod, recon, a.val.items)>>
    IN IF "module" \notin DOMAIN attrs THEN Fail("KeyError", NoPath, <<>>)
       ELSE IF mod = Builtin THEN Fail("NotImplementedError", NoPath, <<>>)
       ELSE IF ~Importable(mod) THEN Fail("ImportError", NoPath, <<>>)
       ELSE IF ~Defined(mod, recon) THEN Fail("KeyError", NoPath, imp)
       ELSE IF a.err # "" THEN Fail(a.err, a.at, imp \o a.log)
       ELSE IF c.err # "" THEN Fail(c.err, c.at, imp \o a.log \o call)
       ELSE Ok(c.val, imp \o a.log \o call)

\* the 'class' branch for a class of a module other than __builtin__
CustomObj(nodes, hdf) ==
    LET attrs == nodes[hdf].attrs
        cls == attrs["class"]
        mod == attrs["module"]
        imp == <<Event("import", mod, cls, <<>>)>>
        n == New(mod, cls)
        new == imp \o n.log
        isdict == ClassBase(mod, cls) = "dict"
        s == IF HasChild(nodes, hdf, "state")
             THEN _hdf_dictitems_to_obj(nodes, Child(hdf, "state"))
             ELSE Ok(PyDict(<<>>), <<>>)
        i == IF HasChild(nodes, hdf, "items") /\ isdict
             THEN _hdf_dictitems_to_obj(nodes, Child(hdf, "items"))
             ELSE Ok(PyDict(<<>>), <<>>)
        \* obj.update(...) runs the class's own update when it defines one
        upd == IF HasChild(nodes, hdf, "items") /\ isdict /\ OverridesUpdate(mod, cls)
               THEN <<Event("method", mod, cls, <<"update">>)>>
               ELSE <<>>
    IN IF ~Importable(mod) THEN Fail("ImportError", NoPath, <<>>)
       ELSE IF ~Defined(mod, cls) THEN Fail("KeyError", NoPath, imp)
       ELSE IF n.err # "" THEN Fail(n.err, n.at, new)
       ELSE IF s.err # "" THEN Fail(s.err, s.at, new \o s.log)
       ELSE IF HasChild(nodes, hdf, "items") /\ ~isdict
            THEN Fail("NotImplementedError", NoPath, new \o s.log)
       ELSE IF i.err # "" THEN Fail(i.err, i.at, new \o s.log \o i.log)
       ELSE Ok(Instance(mod, cls, s.val.map, i.val.map),
               new \o s.log \o i.log \o upd)

\* the decoded list of a 'list' group, re-wrapped when the group is flagged
ListIgnoringFlag(nodes, hdf, l) == l
ListOrObjArray(nodes, hdf, l) ==
    IF HasAttr(nodes, hdf, "is_objarray") THEN Ok(AsObjArray(l.val), l.log) ELSE l

\* the 'class' branch for module __builtin__
BuiltinObj(nodes, hdf) ==
    LET cls == nodes[hdf].attrs["class"]
        items == Child(hdf, "items")
    IN CASE cls = "NoneType" -> Ok(PyNone, <<>>)
         [] cls = "tuple" -> ItemsOf(nodes, hdf, _hdf_tupleitems_to_obj(nodes, items))
         [] cls = "list" ->
              LET l == ItemsOf(nodes, hdf, _hdf_listitems_to_obj(nodes, items))
              IN IF l.err # "" THEN l ELSE ListOrObjArray(nodes, hdf, l)
         [] cls = "dict" -> ItemsOf(nodes, hdf, _hdf_dictitems_to_obj(nodes, items))
         [] OTHER -> Fail("RuntimeError", hdf, <<>>)

\* read a dataset: the scalar of a zero-dimensional one, else the array
ReadAsArray(node) == NdArray(node.dtype, node.shape, node.data)
ReadDataset(node) ==
    IF Len(node.shape) = 0
    THEN Scalar(node.dtype, node.data[1])
    ELSE NdArray(node.dtype, node.shape, node.data)

\* a group without class instance information
AnyGroupAccepted(nodes, hdf) == FALSE
Undescribed(nodes, hdf) ==
    ~(HasAttr(nodes, hdf, "class") \/ HasAttr(nodes, hdf, "recon"))

\* what a call of hdf2obj adds to the log of the calls it makes
Entered(hdf, d) == [d EXCEPT !.log = <<Event("hdf2obj", "", "", hdf)>> \o d.log]

Hdf2Obj(nodes, hdf) ==
    LET node == nodes[hdf]
    IN Entered(hdf,
       IF node.k = "dataset" THEN Ok(ReadDataset(node), <<>>)
       ELSE IF Undescribed(nodes, hdf) THEN Fail("RuntimeError", hdf, <<>>)
       ELSE IF HasAttr(nodes, hdf, "recon") THEN ReconObj(nodes, hdf)
       ELSE IF "class" \notin DOMAIN node.attrs \/ "module" \notin DOMAIN node.attrs
            THEN Fail("KeyError", NoPath, <<>>)
       ELSE IF node.attrs["module"] # Builtin THEN CustomObj(nodes, hdf)
       ELSE BuiltinObj(nodes, hdf))

(***************************************************************************)
(* The objects the codec is run on.                                        *)
(***************************************************************************)
Keys == {"a", "items"}
Ints == 0..MaxInt
Int64(n) == Scalar("int64", n)

\* elements of the flat containers
Elems == {PyNone} \cup {Int64(n) : n \in Ints}

Scalars ==
    {Int64(n) : n \in Ints} \cup {Scalar("float64", 0), Scalar("bool", 1), Scalar("S", 0)}

\* array shapes of rank 0, 1 and 2, zero-length dimensions included
Shapes ==
    {<<>>} \cup {<<n>> : n \in 0..MaxDim}
           \cup {<<n, m>> : n \in 0..MaxDim, m \in 0..MaxDim}

NumArrays ==
    {NdArray("int64", sh, [i \in 1..Prod(sh) |-> i % (MaxInt + 1)]) : sh \in Shapes}
    \cup {NdArray("float64", <<2>>, <<0, 1>>)}

\* object arrays of mixed scalars, strings and None, or of lists
ObjArrays ==
    {NdArray("object", sh,
             [i \in 1..Prod(sh) |-> IF i % 2 = 1 THEN Int64(i % (MaxInt + 1))
                                    ELSE Scalar("S", 0)]) : sh \in Shapes}
    \cup {NdArray("object", sh, [i \in 1..Prod(sh) |-> PyList(<<PyNone>>)]) :
            sh \in Shapes}

SeqsOver(S) == UNION {[1..n -> S] : n \in 0..MaxLen}
MapsOver(S) == UNION {[K -> S] : K \in SUBSET Keys}

Lists == {PyList(s) : s \in SeqsOver(Elems)}
Tuples == {PyTuple(s) : s \in SeqsOver(Elems)}
Dicts == {PyDict(m) : m \in MapsOver(Elems)}

PlainInstances == {Instance(UserModule, "Plain", m, <<>>) : m \in MapsOver(Elems)}
DictInstances ==
    {Instance(UserModule, cls, st, m) :
        cls \in {"MyDict", "MyDictU"},
        st \in {<<>>, ("a" :> Int64(1))}, m \in MapsOver({Int64(0)})}
ListInstances ==
    {Instance(UserModule, "MyList", st, l) :
        st \in {<<>>, ("a" :> Int64(1))}, l \in {<<>>, <<Int64(0)>>}}
CustomInstances ==
    {Instance(UserModule, "Custom", ("a" :> x) @@ ("b" :> y), <<>>) :
        x \in Elems, y \in Elems}
StateInstances ==
    {Instance(UserModule, "CustomS", ("a" :> x) @@ ("b" :> y), <<>>) :
        x \in Elems, y \in {PyNone, Int64(1)}}
OtherObjects ==
    {Instance(UserModule, "Old", <<>>, <<>>), Instance(Builtin, "object", <<>>, <<>>),
     PySet(<<>>), PySet(<<Int64(0)>>), PyFunction}

\* sequences of ten and more elements, each element its own index
LongLen == 11
LongSeq == [i \in 1..LongLen |-> Int64(i - 1)]
LongObjects ==
    {PyList(LongSeq), PyTuple(LongSeq),
     Instance(UserModule, "Wide", ("args" :> PyTuple(LongSeq)), <<>>),
     NdArray("object", <<LongLen>>, LongSeq)}

\* dicts, plain instances and dict-subclass instances whose keys and
\* attributes bear the names the codec uses itself
ReservedObjects ==
    UNION {{PyDict(r :> Int64(1)),
            Instance(UserModule, "Plain", (r :> Int64(1)), <<>>),
            Instance(UserModule, "MyDict", (r :> Int64(1)), (r :> Int64(0)))} :
           r \in Reserved}

Flat ==
    {PyNone} \cup Scalars \cup NumArrays \cup ObjArrays \cup Lists \cup Tuples
    \cup Dicts \cup PlainInstances \cup DictInstances \cup ListInstances
    \cup CustomInstances \cup StateInstances \cup OtherObjects

\* one more level of nesting around v
Wrap(v) ==
    {PyList(<<v>>), PyTuple(<<Int64(0), v>>), PyDict("a" :> v),
     Instance(UserModule, "Plain", ("a" :> v), <<>>),
     NdArray("object", <<1>>, <<v>>),
     Instance(UserModule, "Custom", ("a" :> v) @@ ("b" :> PyNone), <<>>)}

Core ==
    {PyNone, Int64(1), NdArray("int64", <<2>>, <<1, 0>>),
     NdArray("object", <<1, 1>>, <<PyNone>>), NdArray("object", <<>>, <<PyNone>>),
     PyList(<<>>), PyTuple(<<PyNone, Int64(0)>>), PyDict("items" :> Int64(1)),
     Instance(UserModule, "Plain", ("a" :> Int64(1)), <<>>),
     Instance(UserModule, "MyList", <<>>, <<>>)}

RECURSIVE Nested(_, _)
Nested(d, S) == IF d = 0 THEN S ELSE Nested(d - 1, UNION {Wrap(v) : v \in S})

Objects ==
    Flat \cup Nested(1, Flat) \cup UNION {Nested(d, Core) : d \in 2..MaxDepth}
    \cup LongObjects \cup ReservedObjects

Names == {NoName, "x"}

(***************************************************************************)
(* The codec run on one object: encode into a fresh group, decode a node   *)
(* of what was written, damage the store and decode again.                 *)
(***************************************************************************)
Top(name) == IF name = NoName THEN Root ELSE <<name>>

\* whether h5py is handed the name None for a dataset, where its outcomes differ
AnonChoices(data, name) == IF IsLeaf(data) /\ name = NoName THEN BOOLEAN ELSE {TRUE}

Result(op, d) ==
    [op |-> op, err |-> d.err, val |-> d.val, at |-> d.at, log |-> d.log]
NoOut == Result("", Ok(NoVal, <<>>))

\* matrices of one row and one column, their entry a fraction; and None
NoMatrix == [k |-> "None"]
Matrix(num, den) == [k |-> "matrix", num |-> num, den |-> den]

\* what an operation of the mapper returned or raised
Mapped(op, err, val) == [op |-> op, err |-> err, val |-> val]
NoMapped == Mapped("", "", NoMatrix)

\* the parts of the state a specification does not use
PermIdle ==
    /\ attr_value = <<>> /\ chunks_value = <<>> /\ chunks_attr = NoName
    /\ assure_permute = [bool |-> TRUE, n |-> 0]
    /\ frames = <<>> /\ ppc = "idle" /\ perr = ""
    /\ attr_before = <<>> /\ assured = FALSE
CoarseIdle ==
    /\ source = <<>> /\ nchunks = 0 /\ chunks_new = <<>> /\ cpc = "idle"
GraphIdle ==
    /\ heap = <<>> /\ stack = <<>> /\ written = {} /\ ncreated = 0 /\ gpc = "idle"
MapperIdle ==
    /\ _proj = NoMatrix /\ _recon = NoMatrix /\ _offset_in = NoMatrix
    /\ _demean = FALSE /\ mapped = NoMapped
HdfIdle ==
    /\ obj = NoVal /\ nm = NoName /\ store = EmptyStore /\ exists = FALSE
    /\ nopen = 0 /\ out = NoOut /\ pc = "idle" /\ tgt = NoPath /\ bad = NoPath
    /\ nsaves = 0
    /\ saves = <<>>

Init ==
    /\ PermIdle /\ CoarseIdle /\ GraphIdle /\ MapperIdle
    /\ obj \in Objects
    /\ nm \in Names
    /\ store = EmptyStore
    /\ exists = TRUE
    /\ nopen = 0
    /\ out = NoOut
    /\ pc = "start"
    /\ tgt = NoPath
    /\ bad = NoPath
    /\ nsaves = 0
    /\ saves = <<>>

\* obj2hdf(hdf, obj, name) on the root of an empty store
Encode ==
    /\ pc = "start"
    /\ UNCHANGED <<permvars, coarsevars, graphvars, mappervars>>
    /\ \E anon \in AnonChoices(obj, nm) :
         LET r == Obj2Hdf(Start(store, FALSE), Root, obj, nm, anon)
         IN /\ store' = r.nodes
            /\ out' = Result("obj2hdf", Fail(r.err, NoPath, <<>>))
            /\ pc' = IF r.err = "" THEN "encoded" ELSE "raised"
    /\ obj' = CallerView(obj)
    /\ UNCHANGED <<nm, exists, nopen, tgt, bad, nsaves, saves>>

\* hdf2obj(hdf[p]) for a node p of the store as written, or for the top node
\* of a store changed since
Decode ==
    /\ pc \in {"encoded", "stripped", "argless"}
    /\ UNCHANGED <<permvars, coarsevars, graphvars, mappervars>>
    /\ \E p \in DOMAIN store :
         /\ pc # "encoded" => p = Top(nm)
         /\ tgt' = p
         /\ out' = Result("hdf2obj", Hdf2Obj(store, p))
    /\ pc' = CASE pc = "encoded" -> "decoded"
              [] pc = "stripped" -> "redecoded"
              [] pc = "argless" -> "called"
    /\ UNCHANGED <<obj, nm, store, exists, nopen, bad, nsaves, saves>>

IsGroup(nodes, p) == nodes[p].k = "group"
Described(nodes, p) ==
    IsGroup(nodes, p) /\ (HasAttr(nodes, p, "class") \/ HasAttr(nodes, p, "recon"))

\* A store that decoded well loses the 'class' and 'recon' attributes of one group.
Strip ==
    /\ pc = "decoded" /\ out.err = "" /\ tgt = Top(nm)
    /\ UNCHANGED <<permvars, coarsevars, graphvars, mappervars>>
    /\ \E p \in {q \in DOMAIN store : Described(store, q)} :
         /\ bad' = p
         /\ store' = [store EXCEPT ![p].attrs =
                [key \in DOMAIN store[p].attrs \ {"class", "recon"} |-> store[p].attrs[key]]]
    /\ pc' = "stripped"
    /\ UNCHANGED <<obj, nm, exists, nopen, out, tgt, nsaves, saves>>

\* A store whose top group names a reconstructor loses its 'rcargs' group.
DropArgs ==
    /\ pc = "encoded"
    /\ UNCHANGED <<permvars, coarsevars, graphvars, mappervars>>
    /\ IsGroup(store, Top(nm))
    /\ HasAttr(store, Top(nm), "recon")
    /\ store[Top(nm)].attrs["module"] # Builtin
    /\ LET args == Child(Top(nm), "rcargs")
       IN store' = [p \in {q \in DOMAIN store :
                            ~(Len(q) >= Len(args) /\ SubSeq(q, 1, Len(args)) = args)}
                     |-> store[p]]
    /\ pc' = "argless"
    /\ UNCHANGED <<obj, nm, exists, nopen, out, tgt, bad, nsaves, saves>>

Next == Encode \/ Decode \/ Strip \/ DropArgs

Spec == Init /\ [][Next]_vars

(***************************************************************************)
(* h5save and h5load on one file.                                          *)
(***************************************************************************)
Modes == {"r", "r+", "w", "w-", "a"}

\* h5py.File(filename, mode): the exception raised, else the content the
\* handle starts from and whether it is read-only
Opened(nodes, ro) == [err |-> "", nodes |-> nodes, ro |-> ro]
OpenKeeping(mode, there, nodes) ==
    IF there \/ mode \in {"w", "w-", "a"}
    THEN Opened(IF there THEN nodes ELSE EmptyStore, mode = "r")
    ELSE [err |-> "IOError", nodes |-> nodes, ro |-> mode = "r"]
OpenFile(mode, there, nodes) ==
    CASE mode = "r" -> IF there THEN Opened(nodes, TRUE)
                       ELSE [err |-> "IOError", nodes |-> nodes, ro |-> TRUE]
      [] mode = "r+" -> IF there THEN Opened(nodes, FALSE)
                        ELSE [err |-> "IOError", nodes |-> nodes, ro |-> FALSE]
      [] mode = "w" -> Opened(EmptyStore, FALSE)
      [] mode = "w-" -> IF there THEN [err |-> "IOError", nodes |-> nodes, ro |-> FALSE]
                        ELSE Opened(EmptyStore, FALSE)
      [] mode = "a" -> Opened(IF there THEN nodes ELSE EmptyStore, FALSE)

\* whether the open leaves a new, empty file behind
Truncates(mode, there) == mode = "w" \/ (mode = "w-" /\ ~there)

\* try: ... finally: hdf.close(): the handles open once the call is left,
\* n being open before it and err the exception the body raised
ClosedOnReturnOnly(n, err) == IF err = "" THEN n ELSE n + 1
ClosedFinally(n, err) == (n + 1) - 1

\* the objects saved
SaveObjects ==
    {Int64(1), NdArray("int64", <<2>>, <<1, 0>>), PyNone,
     PyList(<<Int64(0), PyNone>>), PyTuple(<<Int64(1)>>), PyDict("a" :> Int64(1)),
     NdArray("object", <<2>>, <<Int64(1), Scalar("S", 0)>>),
     Instance(UserModule, "Plain", ("a" :> Int64(1)), <<>>),
     PyList(<<PyDict("a" :> Instance(UserModule, "MyList", <<>>, <<>>))>>),
     PyList(<<PyNone, NdArray("object", <<>>, <<PyNone>>)>>)}
SaveNames == {NoName, "x", "y"}
LoadNames == {NoName, "x", "y"}

InitFile ==
    /\ PermIdle /\ CoarseIdle /\ GraphIdle /\ MapperIdle
    /\ obj = NoVal
    /\ nm = NoName
    /\ store = EmptyStore
    /\ exists = FALSE
    /\ nopen = 0
    /\ out = NoOut
    /\ pc = "idle"
    /\ tgt = NoPath
    /\ bad = NoPath
    /\ nsaves = 0
    /\ saves = <<>>

\* h5save(filename, data, name, mode)
H5Save ==
    /\ nsaves < MaxSaves
    /\ UNCHANGED <<permvars, coarsevars, graphvars, mappervars>>
    /\ nsaves' = nsaves + 1
    /\ \E data \in SaveObjects, name \in SaveNames, mode \in Modes :
       \E anon \in AnonChoices(data, name) :
      LET f == OpenFile(mode, exists, store)
          r == Obj2Hdf(Start(f.nodes, f.ro), Root, data, name, anon)
          call == [name |-> name, given |-> data, mode |-> mode,
                   err |-> IF f.err # "" THEN f.err ELSE r.err]
      IN /\ obj' = data
         /\ nm' = name
         /\ saves' = IF Truncates(mode, exists) THEN <<call>> ELSE Append(saves, call)
         /\ IF f.err # ""
            THEN /\ out' = Result("h5save", Fail(f.err, NoPath, <<>>))
                 /\ pc' = "failed"
                 /\ UNCHANGED <<store, exists, nopen>>
            ELSE /\ store' = r.nodes
                 /\ exists' = TRUE
                 /\ nopen' = ClosedFinally(nopen, r.err)
                 /\ out' = Result("h5save", Fail(r.err, NoPath, <<>>))
                 /\ pc' = IF r.err = "" THEN "saved" ELSE "failed"
         /\ UNCHANGED <<tgt, bad>>

\* hdf2obj(hdf[name]) once name is found in hdf
NamedUnchecked(nodes, name) ==
    IF ~HasChild(nodes, Root, name) THEN Hdf2Obj(nodes, Root)
    ELSE Hdf2Obj(nodes, <<name>>)
Named(nodes, name) ==
    IF ~HasChild(nodes, Root, name) THEN Fail("ValueError", NoPath, <<>>)
    ELSE Hdf2Obj(nodes, <<name>>)

\* hdf2obj(hdf) when no name is given
RootAsCollection(nodes) == _hdf_dictitems_to_obj(nodes, Root)
Unnamed(nodes) == Hdf2Obj(nodes, Root)

\* what h5load(filename, name) finds in a file that opened
Load(nodes, name) == IF name # NoName THEN Named(nodes, name) ELSE Unnamed(nodes)

\* h5load(filename, name)
H5Load ==
    /\ UNCHANGED <<permvars, coarsevars, graphvars, mappervars>>
    /\ \E name \in LoadNames :
      LET f == OpenFile("r", exists, store)
          d == Load(f.nodes, name)
      IN /\ tgt' = Top(name)
         /\ IF f.err # ""
            THEN /\ out' = Result("h5load", Fail(f.err, NoPath, <<>>))
                 /\ UNCHANGED nopen
            ELSE /\ out' = Result("h5load", d)
                 /\ nopen' = ClosedFinally(nopen, d.err)
         /\ UNCHANGED <<obj, nm, store, exists, pc, bad, nsaves, saves>>

NextFile == H5Save \/ H5Load

SpecFile == InitFile /\ [][NextFile]_vars

(***************************************************************************)
(* permute_attr of mvpa/datasets/miscfx.py on one dataset attribute.  A     *)
(* call that finds its permutation equal to the values calls itself again  *)
(* and assigns its own permutation once that call has returned.            *)
(***************************************************************************)
\* assure_permute: True and False are the integers 1 and 0 of type bool
PyBool(b) == [bool |-> TRUE, n |-> IF b THEN 1 ELSE 0]
PyInt(n) == [bool |-> FALSE, n |-> n]
IsTrue(a) == a.bool /\ a.n = 1
Truthy(a) == a.n # 0

\* assure_permute = 11 # make 10 attempts
Attempts == 11

Range(seq) == {seq[i] : i \in DOMAIN seq}

\* the collection's attributes
AttrNames == {"targets", "chunks"}

\* np.random.permutation: the rearrangements of the positions 1..n
IndexPerms(n) ==
    {p \in [1..n -> 1..n] : \A i, j \in 1..n : i # j => p[i] # p[j]}

\* The outcomes of the scramble: values permuted within the positions sharing
\* a chunk id when chunks_attr is given, else permuted as a whole.
Permuted(values, chunks, by_chunk) ==
    {[i \in DOMAIN values |-> values[p[i]]] :
        p \in {q \in IndexPerms(Len(values)) :
                  by_chunk => \A i \in DOMAIN values : chunks[q[i]] = chunks[i]}}

PermuteInputs ==
    UNION {[1..n -> 0..MaxLabel] \X [1..n -> 0..MaxLabel] : n \in 1..MaxSamples}

InitPermute ==
    /\ HdfIdle /\ CoarseIdle /\ GraphIdle /\ MapperIdle
    /\ \E inp \in PermuteInputs :
         /\ attr_value = inp[1]
         /\ chunks_value = inp[2]
         /\ attr_before = inp[1]
    /\ chunks_attr \in {"chunks", NoName, "missing"}
    /\ assured \in BOOLEAN
    /\ assure_permute = PyBool(assured)
    /\ frames = <<>>
    /\ ppc = "call"
    /\ perr = ""

\* an exception leaves every waiting call before it assigns
PermuteRaise(err) ==
    /\ perr' = err
    /\ ppc' = "raised"
    /\ frames' = <<>>
    /\ UNCHANGED <<attr_value, assure_permute>>

\* one call of permute_attr up to the call it makes of itself, or to its end
PermuteCall ==
    /\ ppc = "call"
    /\ UNCHANGED <<hdfvars, coarsevars, graphvars, mappervars, chunks_value, chunks_attr, attr_before, assured>>
    /\ LET values == attr_value
       IN IF Cardinality(Range(values)) < 2
          THEN PermuteRaise("RuntimeError")
          ELSE IF chunks_attr # NoName /\ chunks_attr \notin AttrNames
          THEN PermuteRaise("ValueError")
          ELSE \E pvalues \in Permuted(values, chunks_value, chunks_attr # NoName) :
                 IF Truthy(assure_permute) /\ pvalues = values
                 THEN IF ~IsTrue(assure_permute) /\ assure_permute.n = 1
                      THEN PermuteRaise("RuntimeError")
                      ELSE /\ frames' = Append(frames, [pvalues |-> pvalues,
                                                        values |-> values])
                           /\ assure_permute' =
                                PyInt((IF IsTrue(assure_permute) THEN Attempts
                                       ELSE assure_permute.n) - 1)
                           /\ UNCHANGED <<attr_value, ppc, perr>>
                 ELSE /\ attr_value' = pvalues
                      /\ ppc' = IF frames = <<>> THEN "done" ELSE "return"
                      /\ UNCHANGED <<frames, assure_permute, perr>>

\* the call a waiting call made has returned: it assigns its own permutation
PermuteReturn ==
    /\ ppc = "return"
    /\ frames # <<>>
    /\ attr_value' = frames[Len(frames)].pvalues
    /\ frames' = SubSeq(frames, 1, Len(frames) - 1)
    /\ ppc' = IF Len(frames) = 1 THEN "done" ELSE "return"
    /\ UNCHANGED <<hdfvars, coarsevars, graphvars, mappervars, chunks_value, chunks_attr, assure_permute,
                   perr, attr_before, assured>>

NextPermute == PermuteCall \/ PermuteReturn

SpecPermute == InitPermute /\ [][NextPermute]_vars

(***************************************************************************)
(* coarsen_chunks of mvpa/datasets/miscfx.py on a list of chunk ids.       *)
(***************************************************************************)
\* np.unique(chunks): the distinct ids in ascending order
RECURSIVE Sorted(_)
Sorted(S) ==
    IF S = {} THEN <<>>
    ELSE LET m == CHOOSE x \in S : \A y \in S : x <= y
         IN <<m>> \o Sorted(S \ {m})

\* counts[c]: the number of samples of chunk c
Count(chunks, c) == Cardinality({i \in DOMAIN chunks : chunks[i] = c})

\* The loop over the unique ids.  st holds chunks_groups, cur_chunk, the
\* counter the code keeps in nchunks, cur_chunk_nsamples and samples_counted;
\* total / want is avg_chunk_size, the comparison with it being made on the
\* numerators.
RECURSIVE GroupChunks(_, _, _, _, _)
GroupChunks(chunks, uniq, want, i, st) ==
    IF i > Len(uniq) THEN st
    ELSE LET c == uniq[i]
             cur == Append(st.cur_chunk, c)
             nsamples == st.cur_chunk_nsamples + Count(chunks, c)
             total == Len(chunks)
         IN IF (st.samples_counted + nsamples) * want >= (st.nchunks + 1) * total
               \/ i = Len(uniq)
            THEN GroupChunks(chunks, uniq, want, i + 1,
                    [chunks_groups |-> Append(st.chunks_groups, cur),
                     cur_chunk |-> <<>>,
                     nchunks |-> st.nchunks + 1,
                     cur_chunk_nsamples |-> 0,
                     samples_counted |-> st.samples_counted + nsamples])
            ELSE GroupChunks(chunks, uniq, want, i + 1,
                    [st EXCEPT !.cur_chunk = cur, !.cur_chunk_nsamples = nsamples])

\* chunks_map[c]: the index of the group that holds c
ChunksMap(groups, c) ==
    (CHOOSE i \in DOMAIN groups : c \in Range(groups[i])) - 1

\* coarsen_chunks(source, nchunks) for a list of chunk ids
CoarsenChunks(chunks, want) ==
    LET uniq == Sorted(Range(chunks))
        st == GroupChunks(chunks, uniq, want, 1,
                 [chunks_groups |-> <<>>, cur_chunk |-> <<>>, nchunks |-> 0,
                  cur_chunk_nsamples |-> 0, samples_counted |-> 0])
    IN IF Len(uniq) < want THEN [err |-> "ValueError", val |-> <<>>]
       ELSE [err |-> "",
             val |-> [i \in DOMAIN chunks |-> ChunksMap(st.chunks_groups, chunks[i])]]

InitCoarsen ==
    /\ HdfIdle /\ PermIdle /\ GraphIdle /\ MapperIdle
    /\ source \in UNION {[1..n -> 0..MaxChunkId] : n \in 0..MaxSamples}
    /\ nchunks \in 1..MaxWant
    /\ chunks_new = <<>>
    /\ cpc = "call"

Coarsen ==
    /\ cpc = "call"
    /\ LET r == CoarsenChunks(source, nchunks)
       IN /\ chunks_new' = r.val
          /\ cpc' = IF r.err = "" THEN "returned" ELSE r.err
    /\ UNCHANGED <<hdfvars, permvars, graphvars, mappervars, source, nchunks>>

NextCoarsen == Coarsen

SpecCoarsen == InitCoarsen /\ [][NextCoarsen]_vars

(***************************************************************************)
(* obj2hdf on a graph of containers (lists, tuples, dicts, instances), one *)
(* call of obj2hdf per step.  A node of the graph holds its children in    *)
(* order, each a reference to a node or a leaf; references may be shared   *)
(* and may lead back to a node they are reached from.                      *)
(***************************************************************************)
GraphLeaf == 0
Heaps ==
    [1..MaxNodes -> UNION {[1..n -> {GraphLeaf} \cup 1..MaxNodes] : n \in 0..MaxKids}]

\* the depth of calls at which the interpreter raises 'maximum recursion depth
\* exceeded'; deeper than any graph without a cycle
RecursionLimit == MaxNodes + 2

\* the call of obj2hdf on node n, stored at path, about to handle child i
Call2Hdf(n, path) == [node |-> n, i |-> 1, path |-> path]

\* the innermost call, and the calls once it has moved on to its next child
Innermost == stack[Len(stack)]
Advanced(stk) == [stk EXCEPT ![Len(stk)].i = @ + 1]

\* obj2hdf(items, item, ...): the call is made for every child, whatever is
\* being stored by the calls it is made from
DescendsUnlessActive(stk, kid) == \A f \in DOMAIN stk : stk[f].node # kid
Descends(stk, kid) == TRUE

InitGraph ==
    /\ HdfIdle /\ PermIdle /\ CoarseIdle /\ MapperIdle
    /\ heap \in Heaps
    /\ stack = <<Call2Hdf(1, <<>>)>>
    /\ written = {<<>>}
    /\ ncreated = 1
    /\ gpc = "run"

\* the next child is a leaf: create_dataset
StoreLeaf ==
    /\ gpc = "run"
    /\ Innermost.i <= Len(heap[Innermost.node])
    /\ heap[Innermost.node][Innermost.i] = GraphLeaf
    /\ written' = written \cup {Append(Innermost.path, Innermost.i)}
    /\ ncreated' = ncreated + 1
    /\ stack' = Advanced(stack)
    /\ UNCHANGED <<hdfvars, permvars, coarsevars, mappervars, heap, gpc>>

\* the next child is a container: obj2hdf calls itself, create_group
Enter ==
    /\ gpc = "run"
    /\ Innermost.i <= Len(heap[Innermost.node])
    /\ heap[Innermost.node][Innermost.i] # GraphLeaf
    /\ LET kid == heap[Innermost.node][Innermost.i]
           path == Append(Innermost.path, Innermost.i)
       IN IF ~Descends(stack, kid)
          THEN /\ stack' = Advanced(stack)
               /\ UNCHANGED <<written, ncreated, gpc>>
          ELSE IF Len(stack) >= RecursionLimit
          THEN /\ gpc' = "raised"
               /\ stack' = <<>>
               /\ UNCHANGED <<written, ncreated>>
          ELSE /\ stack' = Append(stack, Call2Hdf(kid, path))
               /\ written' = written \cup {path}
               /\ ncreated' = ncreated + 1
               /\ UNCHANGED gpc
    /\ UNCHANGED <<hdfvars, permvars, coarsevars, mappervars, heap>>

\* no child is left: the call returns to the call that made it
Return ==
    /\ gpc = "run"
    /\ Innermost.i > Len(heap[Innermost.node])
    /\ IF Len(stack) = 1
       THEN stack' = <<>> /\ gpc' = "done"
       ELSE stack' = Advanced(SubSeq(stack, 1, Len(stack) - 1)) /\ UNCHANGED gpc
    /\ UNCHANGED <<hdfvars, permvars, coarsevars, mappervars, heap, written, ncreated>>

NextGraph == StoreLeaf \/ Enter \/ Return

\* a call of obj2hdf that can take a step takes it
SpecGraph == InitGraph /\ [][NextGraph]_vars /\ WF_vars(NextGraph)

(***************************************************************************)
(* ProjectionMapper of mvpa/mappers/projection.py, constructed with the    *)
(* default selector=None, on data of one feature: matrices have one entry. *)
(***************************************************************************)
Projections == {Matrix(a, 1) : a \in (0 - MaxProj)..MaxProj}
Samples == {Matrix(a, 1) : a \in 0..MaxInt}

\* N.linalg.pinv of a matrix of one entry: its reciprocal, and 0 for 0
Pinv(m) ==
    IF m.num = 0 THEN Matrix(0, 1)
    ELSE IF m.num > 0 THEN Matrix(m.den, m.num)
    ELSE Matrix(0 - m.den, 0 - m.num)

Times(a, b) == Matrix(a.num * b.num, a.den * b.den)
Plus(a, b) == Matrix(a.num * b.den + b.num * a.den, a.den * b.den)
Minus(a, b) == Matrix(a.num * b.den - b.num * a.den, a.den * b.den)

\* self._compute_recon()
_compute_recon(proj) == Pinv(proj)

\* self._get_recon(): the matrix returned and the one kept
_get_recon(recon, proj) == IF recon = NoMatrix THEN _compute_recon(proj) ELSE recon

InitMapper ==
    /\ HdfIdle /\ PermIdle /\ CoarseIdle /\ GraphIdle
    /\ _proj = NoMatrix
    /\ _recon = NoMatrix
    /\ _offset_in = NoMatrix
    /\ _demean \in BOOLEAN
    /\ mapped = NoMapped

\* train(): _pretrain keeps the mean of the samples, the subclass's _train
\* sets the projection matrix, _posttrain selects nothing
Train ==
    /\ \E mean \in Samples, proj \in Projections :
         /\ _offset_in' = IF _demean THEN mean ELSE _offset_in
         /\ _proj' = proj
    /\ mapped' = Mapped("train", "", NoMatrix)
    /\ UNCHANGED <<hdfvars, permvars, coarsevars, graphvars, _recon, _demean>>

\* mapper.recon
ReadRecon ==
    /\ IF _recon = NoMatrix /\ _proj = NoMatrix
       THEN /\ \E err \in {"LinAlgError", "TypeError"} :
                 mapped' = Mapped("recon", err, NoMatrix)
            /\ UNCHANGED _recon
       ELSE /\ _recon' = _get_recon(_recon, _proj)
            /\ mapped' = Mapped("recon", "", _recon')
    /\ UNCHANGED <<hdfvars, permvars, coarsevars, graphvars, _proj, _offset_in, _demean>>

\* _forward_data(data)
Forward ==
    /\ \E data \in Samples :
         LET d == IF _demean /\ _offset_in # NoMatrix THEN Minus(data, _offset_in)
                  ELSE data
         IN mapped' = IF _proj = NoMatrix
                      THEN Mapped("forward", "RuntimeError", NoMatrix)
                      ELSE Mapped("forward", "", Times(d, _proj))
    /\ UNCHANGED <<hdfvars, permvars, coarsevars, graphvars, _proj, _recon,
                   _offset_in, _demean>>

\* _reverse_data(data)
Reverse ==
    /\ \E data \in Samples :
         IF _proj = NoMatrix
         THEN /\ mapped' = Mapped("reverse", "RuntimeError", NoMatrix)
              /\ UNCHANGED _recon
         ELSE LET recon == _get_recon(_recon, _proj)
                  res == Times(data, recon)
              IN /\ _recon' = recon
                 /\ mapped' = Mapped("reverse", "",
                                IF _demean /\ _offset_in # NoMatrix
                                THEN Plus(res, _offset_in) ELSE res)
    /\ UNCHANGED <<hdfvars, permvars, coarsevars, graphvars, _proj, _offset_in, _demean>>

NextMapper == Train \/ ReadRecon \/ Forward \/ Reverse

SpecMapper == InitMapper /\ [][NextMapper]_vars

(***************************************************************************)
(* Properties of the codec.                                                *)
(***************************************************************************)
\* built from lists, tuples, dicts with string keys, None and numeric scalars
RECURSIVE IsPlainData(_)
IsPlainData(v) ==
    CASE v.k = "NoneType" -> TRUE
      [] v.k = "scalar" -> v.dtype # "S"
      [] v.k \in {"list", "tuple"} -> \A i \in DOMAIN v.items : IsPlainData(v.items[i])
      [] v.k = "dict" -> \A key \in DOMAIN v.map : IsPlainData(v.map[key])
      [] OTHER -> FALSE

\* the top-level call of the decoder on the node the encoder wrote
DecodedTop == pc = "decoded" /\ tgt = Top(nm)

C2_LeafRoundTrip ==
    (IsLeaf(obj) /\ nm # NoName) =>
        /\ pc # "raised"
        /\ pc # "start" =>
             /\ DOMAIN store = {Root, <<nm>>}
             /\ store[<<nm>>].k = "dataset"
        /\ DecodedTop =>
             /\ out.err = ""
             /\ IF obj.k = "scalar" THEN out.val = obj
                ELSE IF Len(obj.shape) = 0
                     THEN out.val = Scalar(obj.dtype, obj.data[1])
                ELSE out.val = obj

C2_Witness ==
    /\ DecodedTop /\ nm = "x"
    /\ obj = NdArray("int64", <<2, 2>>, <<1, 0, 1, 0>>)
    /\ out.val = obj

\* what the codec reconstructs: leaves, None, containers, one-dimensional
\* object arrays and instances of the classes it can replay, all of whose
\* parts it reconstructs
RECURSIVE Supported(_)
Supported(v) ==
    CASE v.k \in {"NoneType", "scalar"} -> TRUE
      [] v.k = "ndarray" /\ v.dtype # "object" -> Len(v.shape) >= 1
      [] v.k = "ndarray" /\ v.dtype = "object" ->
            Len(v.shape) = 1 /\ \A i \in DOMAIN v.data : Supported(v.data[i])
      [] v.k \in {"list", "tuple"} -> \A i \in DOMAIN v.items : Supported(v.items[i])
      [] v.k = "dict" -> \A key \in DOMAIN v.map : Supported(v.map[key])
      [] v.k = "instance" /\ v.module = UserModule /\ v.cls \in {"Plain", "MyDict"} ->
            /\ \A key \in DOMAIN v.state : Supported(v.state[key])
            /\ \A key \in DOMAIN v.content : Supported(v.content[key])
      [] v.k = "instance" /\ v.module = UserModule /\ v.cls = "Custom" ->
            \A key \in DOMAIN v.state : Supported(v.state[key])
      [] OTHER -> FALSE

\* an instance replayed generically, with attributes, all parts reconstructable
GenericInstance(o) ==
    /\ o.k = "instance" /\ o.module = UserModule /\ o.cls \in {"Plain", "MyDict"}
    /\ o.state # <<>>
    /\ Supported(o)

C5_ObjArrayAnyShape ==
    (IsObjArray(obj) /\ Len(obj.shape) >= 1
        /\ \A i \in DOMAIN obj.data : Supported(obj.data[i])) =>
        /\ pc # "raised"
        /\ pc # "start" => HasAttr(store, Top(nm), "is_objarray")
        /\ DecodedTop => (out.err = "" /\ out.val = obj)

\* the index a child name of a sequence-style group stands for
IdxOf(name) == CHOOSE i \in 0..(Len(IdxNames) - 1) : StrOf(i) = name

\* the part of the object o that the group at path (relative to o's own
\* group) was written for
RECURSIVE SubObj(_, _)
SubObj(o, path) ==
    IF path = <<>> THEN o
    ELSE LET o2 == IF IsObjArray(o) THEN ListOfArray(o) ELSE o
             rest == SubSeq(path, 3, Len(path))
         IN CASE path[1] = "items" /\ IsDict(o2) -> SubObj(DictMap(o2)[path[2]], rest)
              [] path[1] = "items" /\ ~IsDict(o2) ->
                    SubObj(SeqItems(o2)[IdxOf(path[2]) + 1], rest)
              [] path[1] = "state" -> SubObj(Reduce(o2).state[path[2]], rest)
              [] path[1] = "rcargs" -> SubObj(Reduce(o2).args[IdxOf(path[2]) + 1], rest)

Rel(p) == SubSeq(p, Len(Top(nm)) + 1, Len(p))

\* C6: the encoder flags is_objarray only on the group written for an object
\* array, never on the group of a list, wherever in the tree it lies; the
\* decoder returns an object array only from a __builtin__ 'list' group that
\* carries the flag, and a plain list is decoded as a list.
C6_ListNotObjArray ==
    /\ \A p \in DOMAIN store :
          (pc # "start" /\ IsGroup(store, p) /\ HasAttr(store, p, "is_objarray")) =>
             /\ Len(Rel(p)) % 2 = 0
             /\ IsObjArray(SubObj(obj, Rel(p)))
    /\ (pc = "decoded" /\ out.err = "" /\ out.val.k = "ndarray"
            /\ out.val.dtype = "object") =>
          /\ IsGroup(store, tgt)
          /\ HasAttr(store, tgt, "is_objarray")
          /\ store[tgt].attrs["class"] = "list"
          /\ store[tgt].attrs["module"] = Builtin
    /\ (pc = "decoded" /\ out.err = "" /\ Len(Rel(tgt)) % 2 = 0
            /\ SubObj(obj, Rel(tgt)).k = "list") => out.val.k = "list"

C6_Witness ==
    /\ pc = "decoded" /\ out.err = "" /\ nm = "x"
    /\ obj = NdArray("object", <<1>>, <<PyList(<<PyNone>>)>>)
    /\ tgt = <<"x", "items", "0">>
    /\ out.val = PyList(<<PyNone>>)
    /\ HasAttr(store, <<"x">>, "is_objarray")

\* an object whose __reduce__ names a factory of its own
CustomReduced(o) ==
    o.k = "set" \/ (o.k = "instance" /\ HasCustomReduce(o.module, o.cls))

\* the number of entries of a log equal to the event e
Occurrences(log, e) == Cardinality({i \in DOMAIN log : log[i] = e})

C10_UndescribedGroup ==
    /\ (pc \in {"decoded", "redecoded"} /\ IsGroup(store, tgt)
            /\ ~Described(store, tgt)) =>
          (out.err = "RuntimeError" /\ out.at = tgt /\ out.val = NoVal)
    /\ pc = "redecoded" =>
          (out.err = "RuntimeError" /\ out.at = bad /\ out.val = NoVal)

C10_Witness ==
    /\ pc = "redecoded" /\ Len(bad) >= 5 /\ tgt = <<"x">>
    /\ out.err = "RuntimeError" /\ out.at = bad

\* the last step was a call of the decoder on the store as it now is
Decoded == pc \in {"decoded", "redecoded", "called"}

\* some group of the store names the module and, under one of the keys, the name
NamedBy(module, name, keys) ==
    \E p \in DOMAIN store :
        /\ IsGroup(store, p)
        /\ "module" \in DOMAIN store[p].attrs
        /\ store[p].attrs["module"] = module
        /\ \E key \in keys :
              key \in DOMAIN store[p].attrs /\ store[p].attrs[key] = name

\* the imports, allocations and calls of a log are of what the store names
OnlyNamed(log) ==
    \A i \in DOMAIN log :
        LET e == log[i]
        IN /\ e.ev = "import" => NamedBy(e.module, e.name, {"class", "recon"})
           /\ e.ev = "new" => NamedBy(e.module, e.name, {"class"})
           /\ e.ev = "call" => NamedBy(e.module, e.name, {"recon"})
           /\ e.ev = "method" => NamedBy(e.module, e.name, {"class"})

\* C11 (as claimed): every module the decoder imports and everything it
\* allocates or calls is named by the 'module', 'class' and 'recon' attributes
\* of groups of the store; for a 'class' group nothing of the class runs, the
\* instance being allocated and its attributes assigned; for a 'recon' group
\* the named callable is the only thing called.
C11_NoClassCode ==
    Decoded =>
        /\ OnlyNamed(out.log)
        /\ \A i \in DOMAIN out.log :
              out.log[i].ev \in {"hdf2obj", "import", "new", "call"}

\* C11 (amended): every module the decoder imports and everything it
\* allocates or calls is named by the 'module', 'class' and 'recon' attributes
\* of groups of the store; for a 'class' group the class is never called (no
\* constructor runs): the instance is allocated, its attributes are assigned
\* and, for a dict subclass with 'items', its update method is called, which
\* is the class's own code when the class overrides it; for a 'recon' group
\* the named callable is the only thing called.
C11_NoConstructor ==
    Decoded =>
        /\ OnlyNamed(out.log)
        /\ \A i \in DOMAIN out.log :
              LET e == out.log[i]
              IN /\ e.ev \in {"hdf2obj", "import", "new", "call", "method"}
                 /\ e.ev = "method" =>
                       /\ e.args = <<"update">>
                       /\ ClassBase(e.module, e.name) = "dict"

C11_Witness ==
    /\ DecodedTop /\ out.err = ""
    /\ obj = Instance(UserModule, "MyDictU", ("a" :> Int64(1)), ("a" :> Int64(0)))
    /\ out.val = obj
    /\ out.log[Len(out.log)] = Event("method", UserModule, "MyDictU", <<"update">>)
    /\ Occurrences(out.log, Event("new", UserModule, "MyDictU", <<>>)) = 1

\* the node at p lies in what the encoder wrote for obj
Written(p) == Len(p) >= Len(Top(nm)) /\ SubSeq(p, 1, Len(Top(nm))) = Top(nm)

CallsOf(log) == SelectSeq(log, LAMBDA e : e.ev = "call")

\* C13: a list or tuple is written with element i under the child name
\* str(i) of 'items', and the arguments of a reconstructor under the child
\* names str(i) of 'rcargs'; the decoder takes these children in the numeric
\* order of their names, so element i of the decoded sequence (argument i of
\* the call) is the decoding of the child named str(i) and equals element i of
\* the original, also for sequences of more than ten elements.
C13_NumericOrder ==
    (pc = "decoded" /\ IsGroup(store, tgt) /\ Written(tgt)
        /\ Len(Rel(tgt)) % 2 = 0) =>
        LET sub == SubObj(obj, Rel(tgt))
            pieces == Reduce(sub)
        IN /\ (sub.k \in {"list", "tuple"}
                  /\ \A i \in DOMAIN sub.items : Supported(sub.items[i])) =>
                /\ out.err = ""
                /\ Len(out.val.items) = Len(sub.items)
                /\ \A i \in DOMAIN sub.items :
                      /\ out.val.items[i] = sub.items[i]
                      /\ Hdf2Obj(store, Child(Child(tgt, "items"), StrOf(i - 1))).val
                            = sub.items[i]
           /\ (CustomReduced(sub) /\ pieces.fmodule # Builtin
                  /\ \A i \in DOMAIN pieces.args : Supported(pieces.args[i])) =>
                LET calls == CallsOf(out.log)
                    last == calls[Len(calls)]
                IN /\ Len(calls) >= 1
                   /\ Len(last.args) = Len(pieces.args)
                   /\ \A i \in DOMAIN pieces.args :
                         /\ last.args[i] = pieces.args[i]
                         /\ Hdf2Obj(store, Child(Child(tgt, "rcargs"), StrOf(i - 1))).val
                               = pieces.args[i]

C13_Witness ==
    /\ DecodedTop /\ out.err = "" /\ nm = "x"
    /\ obj = PyTuple(LongSeq)
    /\ Len(out.val.items) > 10
    /\ out.val.items[11] = Int64(10)
    /\ store[<<"x", "items", "10">>] = AsDataset(Int64(10))

\* C14 (as claimed): for an object whose __reduce__ names a factory of the
\* builtin namespace the encoder raises NotImplementedError and writes no
\* 'recon' attribute.
C14_BuiltinFactoryRejected ==
    (CustomReduced(obj) /\ Reduce(obj).fmodule = Builtin /\ pc # "start") =>
        /\ pc = "raised"
        /\ out.err = "NotImplementedError"
        /\ ~HasAttr(store, Top(nm), "recon")

\* neither a leaf, nor reducible, nor a list, tuple, dict or None
Unstorable(o) ==
    /\ ~IsLeaf(o) /\ ~IsObjArray(o)
    /\ Reduce(o).raises = "TypeError"
    /\ ~(IsList(o) \/ IsTuple(o) \/ IsDict(o) \/ o = PyNone)

\* C15 (as claimed): for an object that is neither a leaf, nor reducible, nor
\* a list, tuple, dict or None, the encoder raises and writes no description of
\* the object into the store.
C15_UnstorableRejected ==
    (Unstorable(obj) /\ pc # "start") =>
        /\ pc = "raised"
        /\ out.err # ""
        /\ store[Top(nm)].attrs = <<>>

\* the errors the decoder raises for a malformed node
MalformedErrors == {"RuntimeError", "NotImplementedError", "ImportError", "KeyError"}

\* C16 (as claimed): every error the decoder raises for a malformed node (no
\* descriptor, unhandled builtin class, 'items' on a class that is no mapping,
\* a builtin 'recon', an unresolvable module or name) names the path of a
\* group of the store.
C16_ErrorsNamePath ==
    (Decoded /\ out.err \in MalformedErrors) =>
        /\ out.at # NoPath
        /\ out.at \in DOMAIN store

\* C17 (as claimed): an object whose __reduce__ gives a factory of its own
\* together with a state is refused: the encoder raises, or the decoder
\* raises NotImplementedError; no object is returned that lacks the state.
C17_StateAfterReplayRejected ==
    (CustomReduced(obj) /\ Reduce(obj).n > 2 /\ Reduce(obj).state # <<>>
        /\ Reduce(obj).fmodule # Builtin) =>
        (DecodedTop => (out.err = "NotImplementedError" /\ out.val = NoVal))

DecodedClassGroup ==
    /\ pc = "decoded" /\ IsGroup(store, tgt)
    /\ ~HasAttr(store, tgt, "recon")
    /\ HasAttr(store, tgt, "class") /\ HasAttr(store, tgt, "module")

\* C21: for a group of module '__builtin__' the decoder returns None for the
\* class 'NoneType'; for 'tuple' a tuple, and for 'list' a list, of the
\* decoded children '0', '1', ... of 'items', the list re-wrapped as an object
\* array when the group carries is_objarray; for 'dict' a dict keyed by the
\* child names of 'items'; an error is one a child raised; and for any other
\* class name it raises RuntimeError naming the group and returns nothing.
C21_BuiltinDispatch ==
    (DecodedClassGroup /\ store[tgt].attrs["module"] = Builtin) =>
        LET cls == store[tgt].attrs["class"]
            items == Child(tgt, "items")
            names == ChildNames(store, items)
            n == Cardinality(names)
            elem(i) == Hdf2Obj(store, Child(items, StrOf(i - 1))).val
            seq == IF out.val.k = "ndarray" THEN out.val.data ELSE out.val.items
        IN CASE cls = "NoneType" -> out.err = "" /\ out.val = PyNone
             [] cls \in {"tuple", "list"} ->
                  IF out.err = ""
                  THEN /\ out.val.k =
                            (IF cls = "tuple" THEN "tuple"
                             ELSE IF HasAttr(store, tgt, "is_objarray") THEN "ndarray"
                             ELSE "list")
                       /\ out.val.k = "ndarray" =>
                            (out.val.dtype = "object" /\ out.val.shape = <<n>>)
                       /\ Len(seq) = n
                       /\ \A i \in 1..n : seq[i] = elem(i)
                  ELSE /\ out.val = NoVal
                       /\ \E i \in 1..n :
                             Hdf2Obj(store, Child(items, StrOf(i - 1))).err = out.err
             [] cls = "dict" ->
                  IF out.err = ""
                  THEN /\ out.val.k = "dict"
                       /\ DOMAIN out.val.map = names
                       /\ \A key \in names :
                             out.val.map[key] = Hdf2Obj(store, Child(items, key)).val
                  ELSE /\ out.val = NoVal
                       /\ \E key \in names :
                             Hdf2Obj(store, Child(items, key)).err = out.err
             [] OTHER ->
                  out.err = "RuntimeError" /\ out.val = NoVal /\ out.at = tgt

C21_Witness ==
    /\ pc = "decoded" /\ nm = "x"
    /\ obj = PyList(<<Instance(Builtin, "object", <<>>, <<>>)>>)
    /\ tgt = <<"x", "items", "0">>
    /\ store[tgt].attrs["class"] = "object"
    /\ out.err = "RuntimeError" /\ out.at = tgt

\* C22 (as claimed): for a group naming a class of a module other than
\* '__builtin__', the instance is filled from 'items' (as key-value pairs)
\* only when the class derives from dict; with 'items' present and a class
\* that does not, the decoder raises NotImplementedError and returns nothing.
C22_ItemsOnlyForDicts ==
    (DecodedClassGroup /\ store[tgt].attrs["module"] # Builtin
        /\ HasChild(store, tgt, "items")) =>
        IF ClassBase(store[tgt].attrs["module"], store[tgt].attrs["class"]) = "dict"
        THEN out.err = "" =>
                DOMAIN out.val.content = ChildNames(store, Child(tgt, "items"))
        ELSE out.err = "NotImplementedError" /\ out.val = NoVal

\* C23 (as claimed): whenever the encoder completes without raising, the
\* decoder applied to the node written completes without raising.
C23_DecoderAcceptsEncoded ==
    DecodedTop => out.err = ""

\* the last step was an encode that returned, or a decode of what it wrote
EncodedOk == pc \in {"encoded", "decoded"} /\ ~IsLeaf(obj)

\* the groups written for objects, as opposed to their containers
ObjectGroups ==
    {p \in DOMAIN store :
        Written(p) /\ IsGroup(store, p) /\ Len(Rel(p)) % 2 = 0}

C29_ReservedNamesRoundTrip ==
    (obj \in ReservedObjects /\ pc \in {"encoded", "decoded"}) =>
        /\ \A p \in ObjectGroups :
              Len(Rel(p)) = 0 =>
                  /\ DOMAIN store[p].attrs = {"class", "module"}
                  /\ ChildNames(store, p) \subseteq {"items", "state"}
        /\ DecodedTop => (out.err = "" /\ out.val = obj)

C29_Witness ==
    /\ DecodedTop /\ nm = "x"
    /\ obj = Instance(UserModule, "MyDict", ("state" :> Int64(1)), ("state" :> Int64(0)))
    /\ store[<<"x", "items", "state">>] = AsDataset(Int64(0))
    /\ store[<<"x", "state", "state">>] = AsDataset(Int64(1))
    /\ out.val = obj

(***************************************************************************)
(* Properties of h5save and h5load.                                        *)
(***************************************************************************)
\* the last call was an h5load that followed a successful h5save of obj under
\* the name nm, with the same name argument
LoadedWhatWasSaved == out.op = "h5load" /\ pc = "saved" /\ tgt = Top(nm)

\* C3 (as claimed): h5save of a storable object, with or without a name, fails
\* only for the file's mode or a name already taken, and h5load with the same
\* name argument then returns a value equal to the object.
C3_SaveLoadRoundTrip ==
    Supported(obj) =>
        /\ out.op = "h5save" => out.err \in {"", "IOError", "ValueError", "H5Error"}
        /\ LoadedWhatWasSaved => (out.err = "" /\ out.val = obj)

\* C8: no file handle is open once a call of h5save or h5load is left, however
\* it is left.
C8_HandlesClosed == nopen = 0

C8_Witness ==
    /\ out.op = "h5load" /\ out.err = "TypeError" /\ Len(out.log) >= 4
    /\ nopen = 0

\* C9: h5load with a name the file does not hold raises ValueError, which is
\* not the RuntimeError of a malformed store, and never enters hdf2obj.
C9_MissingName ==
    (out.op = "h5load" /\ exists /\ tgt # Root /\ tgt \notin DOMAIN store) =>
        /\ out.err = "ValueError"
        /\ out.err # "RuntimeError"
        /\ out.log = <<>>
        /\ out.val = NoVal

C9_Witness ==
    /\ out.op = "h5load" /\ tgt = <<"y">> /\ <<"x">> \in DOMAIN store
    /\ out.err = "ValueError"

\* the name given to the h5load call whose result out holds
LoadedName == IF tgt = Root THEN NoName ELSE tgt[1]

\* the calls of h5save, since the file was last created anew, given name n
SavedAs(n) == {i \in DOMAIN saves : saves[i].name = n}

\* data saved alone under name n into a new file loads back equal
LoadsAlone(data, n) ==
    LET r == Obj2Hdf(Start(EmptyStore, FALSE), Root, data, n, TRUE)
        d == Load(r.nodes, n)
    IN ~(IsLeaf(data) /\ n = NoName) /\ r.err = "" /\ d.err = "" /\ d.val = data

\* C26: after any h5save calls on one file with pairwise distinct names since
\* the file was last created anew (mode 'w'), h5load of a name returns the
\* object whose save under that name succeeded, equal to the original, and
\* raises ValueError for every name not saved since then, the names saved
\* before a later 'w' included.
C26_LoadableSinceTruncation ==
    (/\ out.op = "h5load" /\ exists
     /\ \A i, j \in DOMAIN saves : i # j => saves[i].name # saves[j].name) =>
        LET done == {i \in SavedAs(LoadedName) : saves[i].err = ""}
        IN /\ \A i \in done :
                 LoadsAlone(saves[i].given, LoadedName) =>
                     (out.err = "" /\ out.val = saves[i].given)
           /\ (SavedAs(LoadedName) = {} /\ LoadedName # NoName) =>
                 (out.err = "ValueError" /\ out.val = NoVal)

\* two objects saved under two names, the second in mode 'a', and the first
\* loaded; and a name saved before the last 'w' asked for
C26_Witness ==
    /\ out.op = "h5load" /\ tgt = <<"x">>
    /\ Len(saves) = 2
    /\ saves[1] = [name |-> "x", given |-> PyList(<<Int64(0), PyNone>>),
                    mode |-> "w", err |-> ""]
    /\ saves[2].name = "y" /\ saves[2].mode = "a" /\ saves[2].err = ""
    /\ saves[2].given = PyDict("a" :> Int64(1))
    /\ out.err = "" /\ out.val = saves[1].given

\* C27 (as claimed): a call of h5save in mode 'a' or 'r+' that raises leaves
\* every object that loaded from the file before the call loading to the
\* same value after it.
C27_FailedSaveHarmless ==
    [][(/\ nsaves' = nsaves + 1
        /\ exists
        /\ saves'[Len(saves')].mode \in {"a", "r+"}
        /\ saves'[Len(saves')].err # "") =>
            \A n \in LoadNames :
                Load(store, n).err = "" =>
                    (/\ Load(store', n).err = ""
                     /\ Load(store', n).val = Load(store, n).val)]_vars

\* C28: h5load without a name, on a file all of whose saves were given a
\* name, raises the RuntimeError of a group that has neither 'class' nor
\* 'recon', naming the root; it returns nothing, and the file is closed.
C28_NamedOnlyFileHasNoRootObject ==
    (/\ out.op = "h5load" /\ tgt = Root /\ exists
     /\ SavedAs(NoName) = {}) =>
        /\ out.err = "RuntimeError" /\ out.at = Root
        /\ out.val = NoVal
        /\ nopen = 0

C28_Witness ==
    /\ out.op = "h5load" /\ tgt = Root
    /\ Len(saves) = 2 /\ saves[1].name = "x" /\ saves[2].name = "y"
    /\ saves[1].err = "" /\ saves[2].err = ""
    /\ saves[1].given = PyDict("a" :> Int64(1))
    /\ ChildNames(store, Root) = {"x", "y"}
    /\ out.err = "RuntimeError" /\ nopen = 0

(***************************************************************************)
(* Properties of permute_attr and coarsen_chunks.                          *)
(***************************************************************************)
\* C19 (as claimed): a call with assure_permute=True that returns has changed
\* the attribute's values in at least one position.
C19_AssuredPermuted ==
    (ppc = "done" /\ assured) => attr_value # attr_before

\* C20 (as claimed): for chunk ids with at least nchunks distinct values the
\* call returns new ids that are exactly 0 .. nchunks-1, whatever the numbers
\* of samples per original chunk; samples of one original chunk share their
\* new id, and the new ids follow the order of the original ids.
C20_ExactlyNChunks ==
    (cpc # "call" /\ Cardinality(Range(source)) >= nchunks) =>
        /\ cpc = "returned"
        /\ Len(chunks_new) = Len(source)
        /\ Range(chunks_new) = 0..(nchunks - 1)
        /\ \A i, j \in DOMAIN source :
              /\ source[i] = source[j] => chunks_new[i] = chunks_new[j]
              /\ source[i] <= source[j] => chunks_new[i] <= chunks_new[j]

(***************************************************************************)
(* Properties of obj2hdf on graphs with shared and circular references.    *)
(***************************************************************************)
\* the nodes the children of the nodes in S refer to
GraphKids(S) ==
    UNION {{heap[n][i] : i \in DOMAIN heap[n]} : n \in S} \ {GraphLeaf}

\* the nodes reached from the nodes in S by k references and fewer
RECURSIVE Within(_, _)
Within(S, k) == IF k = 0 THEN S ELSE Within(S \cup GraphKids(S), k - 1)

\* some node reached from the input is reached from its own children
Cyclic ==
    \E n \in Within({1}, MaxNodes) : n \in Within(GraphKids({n}), MaxNodes)

\* the occurrences of nodes and leaves in the graph under node n stored at
\* path, each named by the positions that lead to it
RECURSIVE OccurrencesUnder(_, _)
OccurrencesUnder(n, path) ==
    {path} \cup
    UNION {IF heap[n][i] = GraphLeaf THEN {Append(path, i)}
           ELSE OccurrencesUnder(heap[n][i], Append(path, i)) : i \in DOMAIN heap[n]}

\* C25: obj2hdf makes the recursive call for every child without looking for
\* a cycle: on a graph whose part reachable from the input has no cycle the
\* call returns, having created one node for each occurrence of a container
\* or leaf, shared ones once per reference; on a graph with a cycle it never
\* returns normally.
C25_TerminatesIffAcyclic ==
    /\ [](Cyclic => gpc # "done")
    /\ (~Cyclic) ~> (gpc = "done")
    /\ [](gpc = "done" =>
            (written = OccurrencesUnder(1, <<>>) /\ ncreated = Cardinality(written)))

\* a list that holds itself, the recursion stopped by the interpreter
C25_Witness ==
    /\ heap[1] = <<1>>
    /\ Cyclic
    /\ gpc = "raised"
    /\ <<1, 1, 1>> \in written

(***************************************************************************)
(* Properties of ProjectionMapper.                                         *)
(***************************************************************************)
\* C30 (as claimed): every read of recon returns the matrix _compute_recon
\* gives for the projection matrix of the moment of the read, and forward
\* and reverse mapping raise RuntimeError while no projection is set.
C30_ReconNeverStale ==
    /\ (mapped.op = "recon" /\ mapped.err = "") =>
            mapped.val = _compute_recon(_proj)
    /\ (mapped.op \in {"forward", "reverse"} /\ _proj = NoMatrix) =>
            mapped.err = "RuntimeError"

====
